---- MODULE Spec2Model ----
(***************************************************************************)
(* urbs: construction of the linear optimisation model (create_model) and  *)
(* its helper commodity_balance, modelled from src/urbs.py.                *)
(*                                                                         *)
(* A linear expression is a bag (multiset) of terms <<coefficient, var>>;  *)
(* a coefficient is an exact rational <<numerator, denominator>>; a        *)
(* variable is <<name, timestep, key tuple>>.  A constraint is a record    *)
(* with the relational operator the rule function returned.                *)
(***************************************************************************)
EXTENDS Integers, Sequences, FiniteSets, Bags, TLC

(***************************************************************************)
(* Bounds of the explored inputs.                                          *)
(***************************************************************************)
\* timestep identifiers are drawn from 1..MaxTime
MaxTime == 3

(***************************************************************************)
(* Exact rational arithmetic for coefficients.                             *)
(***************************************************************************)
Abs(x) == IF x < 0 THEN -x ELSE x

RECURSIVE GCD(_, _)
GCD(a, b) == IF b = 0 THEN a ELSE GCD(b, a % b)

\* normal form: positive denominator, lowest terms
RNorm(q) ==
    LET n == IF q[2] < 0 THEN -q[1] ELSE q[1]
        d == Abs(q[2])
        g == GCD(Abs(n), d)
    IN  IF n = 0 THEN <<0, 1>> ELSE <<n \div g, d \div g>>

R(n) == <<n, 1>>
RMul(a, b) == RNorm(<<a[1] * b[1], a[2] * b[2]>>)
RDiv(a, b) == RNorm(<<a[1] * b[2], a[2] * b[1]>>)
RAdd(a, b) == RNorm(<<a[1] * b[2] + b[1] * a[2], a[2] * b[2]>>)
RNeg(a) == <<-a[1], a[2]>>
RLe(a, b) == a[1] * b[2] <= b[1] * a[2]
RZero == R(0)
ROne == R(1)

(***************************************************************************)
(* Linear expressions.                                                     *)
(***************************************************************************)
NoT == -1
\* the variable standing for the constant 1 (numeric part of an expression)
Unit == <<"1", NoT, <<>>>>

Term(coef, v) == <<coef, v>>
Const(q) == Term(q, Unit)

RECURSIVE BagOfSeq(_)
BagOfSeq(s) ==
    IF s = <<>> THEN EmptyBag
    ELSE SetToBag({Head(s)}) (+) BagOfSeq(Tail(s))

\* expression with exactly the given terms, each once
Expr(terms) == SetToBag(terms)

\* some enumeration of a finite set (an iteration order of an unordered set)
RECURSIVE IterOrder(_)
IterOrder(S) ==
    IF S = {} THEN <<>>
    ELSE LET x == CHOOSE y \in S : TRUE IN <<x>> \o IterOrder(S \ {x})

Range(s) == {s[i] : i \in DOMAIN s}

\* expr * q : every coefficient multiplied by q
RECURSIVE ScaleSeq(_, _)
ScaleSeq(s, q) ==
    IF s = <<>> THEN <<>>
    ELSE <<Term(RMul(Head(s)[1], q), Head(s)[2])>> \o ScaleSeq(Tail(s), q)

NegSeq(s) == ScaleSeq(s, R(-1))

(***************************************************************************)
(* Input data (argument `data` of create_model): the key tuples of the     *)
(* four entity tables, with the attributes of each possible row, and the   *)
(* two time series.                                                        *)
(***************************************************************************)
GlobalCO2 == <<"Global", "CO2", "Env">>

\* Commodity rows (Sit, Com, Type)
ComAlways == {<<"A", "Elec", "Demand">>, <<"A", "Coal", "Stock">>, GlobalCO2}
ComOptional == {<<"A", "Wind", "SupIm">>,
                <<"B", "Elec", "Demand">>,
                <<"B", "Elec", "Stock">>}
ComUniverse == ComAlways \cup ComOptional

\* Process rows (Sit, Pro, CoIn, CoOut)
ProUniverse == {<<"A", "plant", "Coal", "Elec">>,
                <<"A", "wt", "Wind", "Elec">>,
                <<"B", "wt", "Wind", "Elec">>}

\* Transmission rows (SitIn, SitOut, Tra, Com)
TraUniverse == {<<"A", "B", "hvac", "Elec">>, <<"B", "A", "hvac", "Elec">>}

\* Storage rows (Sit, Sto, Com)
StoUniverse == {<<"A", "bat", "Elec">>, <<"B", "bat", "Elec">>}

\* m.commodity.loc[c][attr]
commodity_loc(c, attr) ==
    CASE attr = "max" ->
            IF c = GlobalCO2 THEN R(1000000)
            ELSE IF c[1] = "A" THEN R(100000000) ELSE R(400000)
      [] attr = "maxperstep" -> IF c[1] = "A" THEN R(1000000) ELSE R(800)
      [] attr = "price" -> IF c[1] = "A" THEN R(7) ELSE R(9)

\* m.process.loc[p][attr]
process_loc(p, attr) ==
    LET plant == p[2] = "plant"
        atA == p[1] = "A"
    IN CASE attr = "eff" -> IF plant THEN <<1, 2>> ELSE IF atA THEN R(1) ELSE <<9, 10>>
         [] attr = "co2" -> IF plant THEN R(0) ELSE R(3)
         [] attr = "inst-cap" ->
                IF p[2] = "old" THEN R(200)
                ELSE IF plant THEN R(0) ELSE IF atA THEN R(20) ELSE R(30)
         [] attr = "cap-lo" -> R(0)
         [] attr = "cap-up" ->
                IF p[2] = "old" THEN R(100)
                ELSE IF plant THEN R(1000) ELSE R(600)
         [] attr = "inv-cost" -> IF plant THEN R(10) ELSE IF atA THEN R(15) ELSE R(16)
         [] attr = "fix-cost" -> IF plant THEN R(0) ELSE R(2)
         [] attr = "var-cost" -> IF plant THEN R(0) ELSE R(1)
         [] attr = "annuity-factor" -> IF plant THEN <<1, 10>> ELSE <<1, 8>>

\* m.transmission.loc[t][attr]
transmission_loc(t, attr) ==
    LET ab == t[1] = "A"
    IN CASE attr = "eff" -> IF ab THEN <<9, 10>> ELSE <<4, 5>>
         [] attr = "inst-cap" ->
                IF t[3] = "dc" THEN R(200) ELSE IF ab THEN R(40) ELSE R(45)
         [] attr = "cap-lo" -> R(0)
         [] attr = "cap-up" -> IF t[3] = "dc" THEN R(100) ELSE R(300)
         [] attr = "inv-cost" -> IF ab THEN R(5) ELSE R(6)
         [] attr = "fix-cost" -> R(1)
         [] attr = "var-cost" -> R(1)
         [] attr = "annuity-factor" -> <<1, 20>>

\* m.storage.loc[s][attr]
storage_loc(s, attr) ==
    LET atA == s[1] = "A"
    IN CASE attr = "eff-in" -> IF atA THEN <<9, 10>> ELSE <<4, 5>>
         [] attr = "eff-out" -> IF atA THEN <<3, 4>> ELSE <<2, 3>>
         [] attr = "inst-cap-p" ->
                IF s[2] = "pump" THEN R(200) ELSE IF atA THEN R(11) ELSE R(12)
         [] attr = "inst-cap-c" ->
                IF s[2] = "tank" THEN R(1000) ELSE IF atA THEN R(60) ELSE R(70)
         [] attr = "cap-lo-p" -> R(0)
         [] attr = "cap-up-p" -> R(100)
         [] attr = "cap-lo-c" -> R(0)
         [] attr = "cap-up-c" -> R(900)
         [] attr = "init" -> IF atA THEN <<1, 2>> ELSE <<1, 4>>
         [] attr = "inv-cost-p" -> R(3)
         [] attr = "inv-cost-c" -> R(4)
         [] attr = "fix-cost-p" -> R(1)
         [] attr = "fix-cost-c" -> R(2)
         [] attr = "var-cost-p" -> R(1)
         [] attr = "var-cost-c" -> R(2)
         [] attr = "annuity-factor" -> <<1, 12>>

\* columns (Sit, Com) of the Demand and SupIm sheets: one per commodity
\* row of the matching type
demand_columns(commodity) ==
    {<<c[1], c[2]>> : c \in {x \in commodity : x[3] = "Demand"}}
supim_columns(commodity) ==
    {<<c[1], c[2]>> : c \in {x \in commodity : x[3] = "SupIm"}}

\* m.demand.loc[tm][sit, com] (MW)
demand_loc(tm, sit, com) == IF sit = "A" THEN R(100) ELSE R(50)
\* m.supim.loc[tm][sit, com] (share of capacity available)
supim_loc(tm, sit, com) == IF tm % 2 = 0 THEN <<1, 2>> ELSE <<1, 4>>

\* ascending sequence of the elements of a finite set of integers
RECURSIVE SortedSeq(_)
SortedSeq(S) ==
    IF S = {} THEN <<>>
    ELSE LET x == CHOOSE y \in S : \A z \in S : y <= z
         IN <<x>> \o SortedSeq(S \ {x})

\* the timestep durations explored (hours)
Durations == {1, 2}

\* the horizons explored: every ascending list of timestep identifiers
Horizons == {SortedSeq(S) : S \in SUBSET (1..MaxTime)}


(***************************************************************************)
(* State.                                                                  *)
(***************************************************************************)
VARIABLES
    data,       \* argument data: key sets of the four entity tables, the
                \* process rows whose eff cell is empty (NaN), and the
                \* columns the process table lacks
    timesteps,  \* argument timesteps: list of timestep identifiers
    dt,         \* argument dt: timestep duration in hours
    m,          \* the ConcreteModel under construction
    pc,         \* the statement of create_model executed next
    result,     \* what the call produced: nothing yet, a model, an exception
    bal,        \* arguments and return value of a call of commodity_balance
    sol,        \* values loaded into the variables of the returned model
    cost_types, \* the initialiser of the set m.cost_type
    ann         \* arguments and outcome of a call of annuity_factor

vars == <<data, timesteps, dt, m, pc, result, bal, sol, cost_types, ann>>

\* the statements of create_model, in program order
Steps == <<"sets", "params", "vars",
           "res_demand", "def_e_co_stock", "res_stock_step", "res_stock_total",
           "def_process_capacity", "def_process_output",
           "def_intermittent_supply", "def_co2_emissions",
           "res_process_output_by_capacity", "res_process_capacity",
           "def_transmission_capacity", "def_transmission_output",
           "res_transmission_input_by_capacity", "res_transmission_capacity",
           "res_transmission_symmetry",
           "def_storage_state", "def_storage_power", "def_storage_capacity",
           "res_storage_input_by_power", "res_storage_output_by_power",
           "res_storage_state_by_capacity", "res_storage_power",
           "res_storage_capacity", "res_initial_and_final_storage_state",
           "res_co2_emission", "def_costs", "obj", "return">>

StepNo(name) == CHOOSE i \in DOMAIN Steps : Steps[i] = name
NextStep(name) == Steps[StepNo(name) + 1]

\* variable handles
V(name, t, key) == <<name, t, key>>

\* index sets (tm, tuple) and (tuple)
TimeIndex(ts, tuples) == {<<t, k>> : t \in Range(ts), k \in tuples}
KeyIndex(tuples) == {<<NoT, k>> : k \in tuples}

(***************************************************************************)
(* commodity_balance: the three loops in the iteration order they are      *)
(* given; the value is the sequence of signed terms accumulated.           *)
(***************************************************************************)
\* variant: the output test is an elif of the input test
RECURSIVE balance_pro_elif(_, _, _, _)
balance_pro_elif(order, tm, sit, com) ==
    IF order = <<>> THEN <<>>
    ELSE LET p == Head(order)
             step == IF p[1] = sit /\ p[3] = com
                     THEN <<Term(R(1), V("e_pro_in", tm, p))>>
                     ELSE IF p[1] = sit /\ p[4] = com
                     THEN <<Term(R(-1), V("e_pro_out", tm, p))>>
                     ELSE <<>>
         IN step \o balance_pro_elif(Tail(order), tm, sit, com)

RECURSIVE balance_pro(_, _, _, _)
balance_pro(order, tm, sit, com) ==
    IF order = <<>> THEN <<>>
    ELSE LET p == Head(order)
             consumed == IF p[1] = sit /\ p[3] = com
                         THEN <<Term(R(1), V("e_pro_in", tm, p))>> ELSE <<>>
             provided == IF p[1] = sit /\ p[4] = com
                         THEN <<Term(R(-1), V("e_pro_out", tm, p))>> ELSE <<>>
         IN consumed \o provided \o balance_pro(Tail(order), tm, sit, com)

RECURSIVE balance_tra(_, _, _, _)
balance_tra(order, tm, sit, com) ==
    IF order = <<>> THEN <<>>
    ELSE LET t == Head(order)
             exported == IF t[1] = sit /\ t[4] = com
                         THEN <<Term(R(1), V("e_tra_in", tm, t))>> ELSE <<>>
             imported == IF t[2] = sit /\ t[4] = com
                         THEN <<Term(R(-1), V("e_tra_out", tm, t))>> ELSE <<>>
         IN exported \o imported \o balance_tra(Tail(order), tm, sit, com)

RECURSIVE balance_sto(_, _, _, _)
balance_sto(order, tm, sit, com) ==
    IF order = <<>> THEN <<>>
    ELSE LET s == Head(order)
             both == IF s[1] = sit /\ s[3] = com
                     THEN <<Term(R(1), V("e_sto_in", tm, s)),
                            Term(R(-1), V("e_sto_out", tm, s))>>
                     ELSE <<>>
         IN both \o balance_sto(Tail(order), tm, sit, com)

\* the function with the iteration orders of the three tuple sets explicit
commodity_balance_in_order(pro_order, tra_order, sto_order, tm, sit, com) ==
    balance_pro(pro_order, tm, sit, com)
        \o balance_tra(tra_order, tm, sit, com)
        \o balance_sto(sto_order, tm, sit, com)

commodity_balance(mm, tm, sit, com) ==
    commodity_balance_in_order(IterOrder(mm.pro_tuples),
                               IterOrder(mm.tra_tuples),
                               IterOrder(mm.sto_tuples), tm, sit, com)

(***************************************************************************)
(* create_model: initial state and the statements before the equations.    *)
(***************************************************************************)
EmptyModel ==
    [t |-> <<>>, tm |-> <<>>,
     sit |-> {}, com |-> {}, com_type |-> {},
     pro |-> {}, tra |-> {}, sto |-> {}, cost_type |-> {},
     com_tuples |-> {}, pro_tuples |-> {}, tra_tuples |-> {},
     sto_tuples |-> {},
     com_supim |-> {}, com_stock |-> {}, com_demand |-> {},
     demand |-> {}, supim |-> {},
     nan |-> {}, dropped |-> {},
     weight |-> RZero, dt |-> 0,
     vars |-> {}, within |-> {},
     cons |-> {}, declared |-> {},
     obj |-> [sense |-> "none", expr |-> EmptyBag]]

NoCall == [called |-> FALSE]

\* lines 195-197: the cost types m.cost_type is initialised with
CostTypes == {"Inv", "Fix", "Var", "Fuel"}
\* no variable has a value
NoValues == <<>>

Running == [kind |-> "running", at |-> "none"]
Returned == [kind |-> "model", at |-> "return"]
Raised(exc, step) == [kind |-> exc, at |-> step]

Tables ==
    {[commodity |-> ComAlways \cup c, process |-> p,
      transmission |-> t, storage |-> s,
      nan |-> {}, dropped |-> {}] :
        c \in SUBSET ComOptional, p \in SUBSET ProUniverse,
        t \in SUBSET TraUniverse, s \in SUBSET StoUniverse}

Init ==
    /\ data \in Tables
    /\ timesteps \in Horizons
    /\ dt \in Durations
    /\ m = EmptyModel
    /\ pc = "sets"
    /\ result = Running
    /\ bal = NoCall
    /\ sol = NoValues
    /\ cost_types = CostTypes
    /\ ann = NoCall

Fail(exc) ==
    /\ pc' = "failed"
    /\ result' = Raised(exc, pc)
    /\ m' = m

\* lines 140-222: the data import and the sets; `within` rejects a tuple
\* outside its domain
m_sets ==
    /\ pc = "sets"
    /\ LET sit == {c[1] : c \in data.commodity}
           com == {c[2] : c \in data.commodity}
           com_type == {c[3] : c \in data.commodity}
           pro == {p[2] : p \in data.process}
           tra == {t[3] : t \in data.transmission}
           sto == {s[2] : s \in data.storage}
           pro_ok == \A p \in data.process :
                        p[1] \in sit /\ p[3] \in com /\ p[4] \in com
           tra_ok == \A t \in data.transmission :
                        t[1] \in sit /\ t[2] \in sit /\ t[4] \in com
           sto_ok == \A s \in data.storage : s[1] \in sit /\ s[3] \in com
       IN IF pro_ok /\ tra_ok /\ sto_ok
          THEN /\ m' = [m EXCEPT
                     !.t = timesteps,
                     !.tm = IF timesteps = <<>> THEN <<>> ELSE Tail(timesteps),
                     !.sit = sit, !.com = com, !.com_type = com_type,
                     !.pro = pro, !.tra = tra, !.sto = sto,
                     !.cost_type = cost_types,
                     !.nan = data.nan, !.dropped = data.dropped,
                     !.demand = demand_columns(data.commodity),
                     !.supim = supim_columns(data.commodity),
                     !.com_tuples = data.commodity,
                     !.pro_tuples = data.process,
                     !.tra_tuples = data.transmission,
                     !.sto_tuples = data.storage,
                     !.com_supim =
                        {c[2] : c \in {x \in data.commodity : x[3] = "SupIm"}},
                     !.com_stock =
                        {c[2] : c \in {x \in data.commodity : x[3] = "Stock"}},
                     !.com_demand =
                        {c[2] : c \in {x \in data.commodity : x[3] = "Demand"}}]
               /\ pc' = NextStep(pc)
               /\ result' = result
          ELSE Fail("ValueError")
    /\ UNCHANGED <<data, timesteps, dt, bal, sol, cost_types, ann>>

HoursPerYear == 8760

\* variant: the weight counts the modelled timesteps m.tm only
m_params_modelled ==
    /\ pc = "params"
    /\ IF Len(m.tm) * dt = 0
       THEN Fail("ZeroDivisionError")
       ELSE /\ m' = [m EXCEPT !.weight = RNorm(<<HoursPerYear, Len(m.tm) * dt>>),
                              !.dt = dt]
            /\ pc' = NextStep(pc)
            /\ result' = result
    /\ UNCHANGED <<data, timesteps, dt, bal, sol, cost_types, ann>>

\* lines 240-241: the parameters
m_params ==
    /\ pc = "params"
    /\ IF Len(m.t) * dt = 0
       THEN Fail("ZeroDivisionError")
       ELSE /\ m' = [m EXCEPT !.weight = RNorm(<<HoursPerYear, Len(m.t) * dt>>),
                              !.dt = dt]
            /\ pc' = NextStep(pc)
            /\ result' = result
    /\ UNCHANGED <<data, timesteps, dt, bal, sol, cost_types, ann>>

\* variant: the storage content exists for the modelled timesteps only
m_vars_content_modelled ==
    /\ pc = "vars"
    /\ LET over(names, idx) == {V(n, i[1], i[2]) : n \in names, i \in idx}
           capacities ==
                over({"cap_pro", "cap_pro_new"}, KeyIndex(m.pro_tuples))
                \cup over({"cap_tra", "cap_tra_new"}, KeyIndex(m.tra_tuples))
                \cup over({"cap_sto_c", "cap_sto_c_new",
                           "cap_sto_p", "cap_sto_p_new"},
                          KeyIndex(m.sto_tuples))
           emissions == over({"co2_pro_out"}, TimeIndex(m.tm, m.pro_tuples))
           costs == over({"costs"}, KeyIndex({<<ct>> : ct \in m.cost_type}))
           timeseries ==
                over({"e_co_stock"}, TimeIndex(m.tm, m.com_tuples))
                \cup over({"e_pro_in", "e_pro_out"},
                          TimeIndex(m.tm, m.pro_tuples))
                \cup over({"e_tra_in", "e_tra_out"},
                          TimeIndex(m.tm, m.tra_tuples))
                \cup over({"e_sto_in", "e_sto_out"},
                          TimeIndex(m.tm, m.sto_tuples))
                \cup over({"e_sto_con"}, TimeIndex(m.tm, m.sto_tuples))
           names == {"cap_pro", "cap_pro_new", "cap_tra", "cap_tra_new",
                     "cap_sto_c", "cap_sto_c_new", "cap_sto_p",
                     "cap_sto_p_new", "co2_pro_out", "costs", "e_co_stock",
                     "e_pro_in", "e_pro_out", "e_tra_in", "e_tra_out",
                     "e_sto_in", "e_sto_out", "e_sto_con"}
       IN m' = [m EXCEPT
                  !.vars = capacities \cup emissions \cup costs \cup timeseries,
                  !.within = {<<n, "NonNegativeReals">> : n \in names}]
    /\ pc' = NextStep(pc)
    /\ UNCHANGED <<data, timesteps, dt, result, bal, sol, cost_types, ann>>

\* lines 253-330: the decision variables
m_vars ==
    /\ pc = "vars"
    /\ LET over(names, idx) == {V(n, i[1], i[2]) : n \in names, i \in idx}
           capacities ==
                over({"cap_pro", "cap_pro_new"}, KeyIndex(m.pro_tuples))
                \cup over({"cap_tra", "cap_tra_new"}, KeyIndex(m.tra_tuples))
                \cup over({"cap_sto_c", "cap_sto_c_new",
                           "cap_sto_p", "cap_sto_p_new"},
                          KeyIndex(m.sto_tuples))
           emissions == over({"co2_pro_out"}, TimeIndex(m.tm, m.pro_tuples))
           costs == over({"costs"}, KeyIndex({<<ct>> : ct \in m.cost_type}))
           timeseries ==
                over({"e_co_stock"}, TimeIndex(m.tm, m.com_tuples))
                \cup over({"e_pro_in", "e_pro_out"},
                          TimeIndex(m.tm, m.pro_tuples))
                \cup over({"e_tra_in", "e_tra_out"},
                          TimeIndex(m.tm, m.tra_tuples))
                \cup over({"e_sto_in", "e_sto_out"},
                          TimeIndex(m.tm, m.sto_tuples))
                \cup over({"e_sto_con"}, TimeIndex(m.t, m.sto_tuples))
           names == {"cap_pro", "cap_pro_new", "cap_tra", "cap_tra_new",
                     "cap_sto_c", "cap_sto_c_new", "cap_sto_p",
                     "cap_sto_p_new", "co2_pro_out", "costs", "e_co_stock",
                     "e_pro_in", "e_pro_out", "e_tra_in", "e_tra_out",
                     "e_sto_in", "e_sto_out", "e_sto_con"}
       IN m' = [m EXCEPT
                  !.vars = capacities \cup emissions \cup costs \cup timeseries,
                  !.within = {<<n, "NonNegativeReals">> : n \in names}]
    /\ pc' = NextStep(pc)
    /\ UNCHANGED <<data, timesteps, dt, result, bal, sol, cost_types, ann>>


(***************************************************************************)
(* Rule functions.  A rule returns a relation between two expressions, a   *)
(* range (lo, expr, hi), Constraint.Skip, or raises KeyError.               *)
(***************************************************************************)
Rel(lhs, op, rhs) == [lo |-> EmptyBag, lhs |-> lhs, op |-> op, rhs |-> rhs]
RangeRel(lo, expr, hi) ==
    [lo |-> Expr({Const(lo)}), lhs |-> expr, op |-> "range",
     rhs |-> Expr({Const(hi)})]
Skip == [lo |-> EmptyBag, lhs |-> EmptyBag, op |-> "Skip", rhs |-> EmptyBag]
KeyError ==
    [lo |-> EmptyBag, lhs |-> EmptyBag, op |-> "KeyError", rhs |-> EmptyBag]

Single(v) == Expr({Term(ROne, v)})

\* commodity

\* variant: the balance is not negated (consumption >= demand)
res_demand_rule_unsigned(mm, tm, sit, com, com_type) ==
    IF com \notin mm.com_demand THEN Skip
    ELSE IF <<sit, com>> \notin mm.demand THEN KeyError
    ELSE Rel(BagOfSeq(commodity_balance(mm, tm, sit, com)), ">=",
             Expr({Const(demand_loc(tm, sit, com))}))

res_demand_rule(mm, tm, sit, com, com_type) ==
    IF com \notin mm.com_demand THEN Skip
    ELSE IF <<sit, com>> \notin mm.demand THEN KeyError
    ELSE Rel(BagOfSeq(NegSeq(commodity_balance(mm, tm, sit, com))), ">=",
             Expr({Const(demand_loc(tm, sit, com))}))

\* variant: the stock variable is bounded by the balance, not equal to it
def_e_co_stock_rule_bound(mm, tm, sit, com, com_type) ==
    IF com \notin mm.com_stock THEN Skip
    ELSE Rel(Single(V("e_co_stock", tm, <<sit, com, com_type>>)), ">=",
             BagOfSeq(commodity_balance(mm, tm, sit, com)))

def_e_co_stock_rule(mm, tm, sit, com, com_type) ==
    IF com \notin mm.com_stock THEN Skip
    ELSE Rel(Single(V("e_co_stock", tm, <<sit, com, com_type>>)), "==",
             BagOfSeq(commodity_balance(mm, tm, sit, com)))

res_stock_step_rule(mm, tm, sit, com, com_type) ==
    IF com \notin mm.com_stock THEN Skip
    ELSE Rel(Single(V("e_co_stock", tm, <<sit, com, com_type>>)), "<=",
             Expr({Const(commodity_loc(<<sit, com, com_type>>, "maxperstep"))}))

\* variant: the consumption of the horizon is not scaled to a year
res_stock_total_rule_unscaled(mm, sit, com, com_type) ==
    IF com \notin mm.com_stock THEN Skip
    ELSE Rel(Expr({Term(R(mm.dt),
                        V("e_co_stock", tm, <<sit, com, com_type>>)) :
                        tm \in Range(mm.tm)}),
             "<=",
             Expr({Const(commodity_loc(<<sit, com, com_type>>, "max"))}))

res_stock_total_rule(mm, sit, com, com_type) ==
    IF com \notin mm.com_stock THEN Skip
    ELSE Rel(Expr({Term(RMul(R(mm.dt), mm.weight),
                        V("e_co_stock", tm, <<sit, com, com_type>>)) :
                        tm \in Range(mm.tm)}),
             "<=",
             Expr({Const(commodity_loc(<<sit, com, com_type>>, "max"))}))

\* process

\* variant: the installed capacity is left out (total == new)
def_process_capacity_rule_new_only(mm, sit, pro, coin, cout) ==
    LET p == <<sit, pro, coin, cout>>
    IN Rel(Single(V("cap_pro", NoT, p)), "==",
           Expr({Term(ROne, V("cap_pro_new", NoT, p))}))

def_process_capacity_rule(mm, sit, pro, coin, cout) ==
    LET p == <<sit, pro, coin, cout>>
    IN Rel(Single(V("cap_pro", NoT, p)), "==",
           Expr({Term(ROne, V("cap_pro_new", NoT, p)),
                 Const(process_loc(p, "inst-cap"))}))

\* the float nan as a coefficient: what an empty cell of a table holds
NaNCoef == <<0, 0>>

\* m.process.loc[p]['eff'] where the column exists
process_eff(mm, p) ==
    IF p \in mm.nan THEN NaNCoef ELSE process_loc(p, "eff")

\* variant: the efficiency is applied to the output (input == output * eff)
def_process_output_rule_inverse(mm, tm, sit, pro, coin, cout) ==
    LET p == <<sit, pro, coin, cout>>
    IN Rel(Single(V("e_pro_in", tm, p)), "==",
           Expr({Term(process_loc(p, "eff"), V("e_pro_out", tm, p))}))

\* variant: the efficiency is left out (output == input)
def_process_output_rule_lossless(mm, tm, sit, pro, coin, cout) ==
    LET p == <<sit, pro, coin, cout>>
    IN Rel(Single(V("e_pro_out", tm, p)), "==",
           Expr({Term(ROne, V("e_pro_in", tm, p))}))

def_process_output_rule(mm, tm, sit, pro, coin, cout) ==
    LET p == <<sit, pro, coin, cout>>
    IN IF "eff" \in mm.dropped THEN KeyError
       ELSE Rel(Single(V("e_pro_out", tm, p)), "==",
                Expr({Term(process_eff(mm, p), V("e_pro_in", tm, p))}))

def_intermittent_supply_rule(mm, tm, sit, pro, coin, cout) ==
    LET p == <<sit, pro, coin, cout>>
    IN IF coin \in mm.com_supim
       THEN IF <<sit, coin>> \notin mm.supim THEN KeyError
            ELSE Rel(Single(V("e_pro_in", tm, p)), "==",
                     Expr({Term(supim_loc(tm, sit, coin),
                                V("cap_pro", NoT, p))}))
       ELSE Skip

\* variant: the emissions are scaled by the weight instead of dt
def_co2_emissions_rule_weight(mm, tm, sit, pro, coin, cout) ==
    LET p == <<sit, pro, coin, cout>>
    IN Rel(Single(V("co2_pro_out", tm, p)), "==",
           Expr({Term(RMul(process_loc(p, "co2"), mm.weight),
                      V("e_pro_in", tm, p))}))

def_co2_emissions_rule(mm, tm, sit, pro, coin, cout) ==
    LET p == <<sit, pro, coin, cout>>
    IN Rel(Single(V("co2_pro_out", tm, p)), "==",
           Expr({Term(RMul(process_loc(p, "co2"), R(mm.dt)),
                      V("e_pro_in", tm, p))}))

\* variant: the ceiling is left out for intermittent-supply processes
res_process_output_by_capacity_rule_override(mm, tm, sit, pro, coin, cout) ==
    LET p == <<sit, pro, coin, cout>>
    IN IF coin \in mm.com_supim THEN Skip
       ELSE Rel(Single(V("e_pro_out", tm, p)), "<=",
                Single(V("cap_pro", NoT, p)))

\* variant: the ceiling bounds the input flow
res_process_output_by_capacity_rule_input(mm, tm, sit, pro, coin, cout) ==
    LET p == <<sit, pro, coin, cout>>
    IN Rel(Single(V("e_pro_in", tm, p)), "<=", Single(V("cap_pro", NoT, p)))

res_process_output_by_capacity_rule(mm, tm, sit, pro, coin, cout) ==
    LET p == <<sit, pro, coin, cout>>
    IN Rel(Single(V("e_pro_out", tm, p)), "<=", Single(V("cap_pro", NoT, p)))

res_process_capacity_rule(mm, sit, pro, coin, cout) ==
    LET p == <<sit, pro, coin, cout>>
    IN RangeRel(process_loc(p, "cap-lo"), Single(V("cap_pro", NoT, p)),
                process_loc(p, "cap-up"))

\* transmission

def_transmission_capacity_rule(mm, sin, sout, tra, com) ==
    LET t == <<sin, sout, tra, com>>
    IN Rel(Single(V("cap_tra", NoT, t)), "==",
           Expr({Term(ROne, V("cap_tra_new", NoT, t)),
                 Const(transmission_loc(t, "inst-cap"))}))

def_transmission_output_rule(mm, tm, sin, sout, tra, com) ==
    LET t == <<sin, sout, tra, com>>
    IN Rel(Single(V("e_tra_out", tm, t)), "==",
           Expr({Term(transmission_loc(t, "eff"), V("e_tra_in", tm, t))}))

res_transmission_input_by_capacity_rule(mm, tm, sin, sout, tra, com) ==
    LET t == <<sin, sout, tra, com>>
    IN Rel(Single(V("e_tra_in", tm, t)), "<=", Single(V("cap_tra", NoT, t)))

res_transmission_capacity_rule(mm, sin, sout, tra, com) ==
    LET t == <<sin, sout, tra, com>>
    IN RangeRel(transmission_loc(t, "cap-lo"), Single(V("cap_tra", NoT, t)),
                transmission_loc(t, "cap-up"))

res_transmission_symmetry_rule(mm, sin, sout, tra, com) ==
    Rel(Single(V("cap_tra", NoT, <<sin, sout, tra, com>>)), "==",
        Single(V("cap_tra", NoT, <<sout, sin, tra, com>>)))

\* storage

def_storage_state_rule(mm, t, sit, sto, com) ==
    LET s == <<sit, sto, com>>
    IN Rel(Single(V("e_sto_con", t, s)), "==",
           Expr({Term(ROne, V("e_sto_con", t - 1, s)),
                 Term(RMul(storage_loc(s, "eff-in"), R(mm.dt)),
                      V("e_sto_in", t, s)),
                 Term(RNeg(RMul(RDiv(ROne, storage_loc(s, "eff-out")),
                                R(mm.dt))),
                      V("e_sto_out", t, s))}))

def_storage_power_rule(mm, sit, sto, com) ==
    LET s == <<sit, sto, com>>
    IN Rel(Single(V("cap_sto_p", NoT, s)), "==",
           Expr({Term(ROne, V("cap_sto_p_new", NoT, s)),
                 Const(storage_loc(s, "inst-cap-p"))}))

\* variant: the installed power is added instead of the installed capacity
def_storage_capacity_rule_power(mm, sit, sto, com) ==
    LET s == <<sit, sto, com>>
    IN Rel(Single(V("cap_sto_c", NoT, s)), "==",
           Expr({Term(ROne, V("cap_sto_c_new", NoT, s)),
                 Const(storage_loc(s, "inst-cap-p"))}))

def_storage_capacity_rule(mm, sit, sto, com) ==
    LET s == <<sit, sto, com>>
    IN Rel(Single(V("cap_sto_c", NoT, s)), "==",
           Expr({Term(ROne, V("cap_sto_c_new", NoT, s)),
                 Const(storage_loc(s, "inst-cap-c"))}))

res_storage_input_by_power_rule(mm, t, sit, sto, com) ==
    LET s == <<sit, sto, com>>
    IN Rel(Single(V("e_sto_in", t, s)), "<=", Single(V("cap_sto_p", NoT, s)))

res_storage_output_by_power_rule(mm, t, sit, sto, co) ==
    LET s == <<sit, sto, co>>
    IN Rel(Single(V("e_sto_out", t, s)), "<=", Single(V("cap_sto_p", NoT, s)))

res_storage_state_by_capacity_rule(mm, t, sit, sto, com) ==
    LET s == <<sit, sto, com>>
    IN Rel(Single(V("e_sto_con", t, s)), "<=", Single(V("cap_sto_c", NoT, s)))

res_storage_power_rule(mm, sit, sto, com) ==
    LET s == <<sit, sto, com>>
    IN RangeRel(storage_loc(s, "cap-lo-p"), Single(V("cap_sto_p", NoT, s)),
                storage_loc(s, "cap-up-p"))

res_storage_capacity_rule(mm, sit, sto, com) ==
    LET s == <<sit, sto, com>>
    IN RangeRel(storage_loc(s, "cap-lo-c"), Single(V("cap_sto_c", NoT, s)),
                storage_loc(s, "cap-up-c"))

\* variant: the last timestep is tested before the first
res_initial_and_final_storage_state_rule_last_first(mm, t, sit, sto, com) ==
    LET s == <<sit, sto, com>>
        scaled == Expr({Term(storage_loc(s, "init"), V("cap_sto_c", NoT, s))})
    IN IF t = mm.t[Len(mm.t)]
       THEN Rel(Single(V("e_sto_con", t, s)), ">=", scaled)
       ELSE IF t = mm.t[1]
       THEN Rel(Single(V("e_sto_con", t, s)), "==", scaled)
       ELSE Skip

res_initial_and_final_storage_state_rule(mm, t, sit, sto, com) ==
    LET s == <<sit, sto, com>>
        scaled == Expr({Term(storage_loc(s, "init"), V("cap_sto_c", NoT, s))})
    IN IF t = mm.t[1]
       THEN Rel(Single(V("e_sto_con", t, s)), "==", scaled)
       ELSE IF t = mm.t[Len(mm.t)]
       THEN Rel(Single(V("e_sto_con", t, s)), ">=", scaled)
       ELSE Skip

\* emissions

\* variant: the sum is not extrapolated by the weight
res_co2_emission_rule_unweighted(mm) ==
    IF GlobalCO2 \notin mm.com_tuples THEN KeyError
    ELSE Rel(Expr({Term(ROne, v) :
                      v \in {x \in mm.vars : x[1] = "co2_pro_out"}}),
             "<=",
             Expr({Const(commodity_loc(GlobalCO2, "max"))}))

res_co2_emission_rule(mm) ==
    IF GlobalCO2 \notin mm.com_tuples THEN KeyError
    ELSE Rel(Expr({Term(mm.weight, v) :
                      v \in {x \in mm.vars : x[1] = "co2_pro_out"}}),
             "<=",
             Expr({Const(commodity_loc(GlobalCO2, "max"))}))


\* costs

NotImplementedError ==
    [lo |-> EmptyBag, lhs |-> EmptyBag, op |-> "NotImplementedError",
     rhs |-> EmptyBag]

\* variant: the investment is charged on the total capacities
def_costs_inv_total(mm) ==
    Rel(Single(V("costs", NoT, <<"Inv">>)), "==",
        Expr({Term(RMul(process_loc(p, "inv-cost"),
                        process_loc(p, "annuity-factor")),
                   V("cap_pro", NoT, p)) : p \in mm.pro_tuples}
             \cup
             {Term(RMul(transmission_loc(t, "inv-cost"),
                        transmission_loc(t, "annuity-factor")),
                   V("cap_tra", NoT, t)) : t \in mm.tra_tuples}
             \cup
             {Term(RMul(storage_loc(s, "inv-cost-p"),
                        storage_loc(s, "annuity-factor")),
                   V("cap_sto_p", NoT, s)) : s \in mm.sto_tuples}
             \cup
             {Term(RMul(storage_loc(s, "inv-cost-c"),
                        storage_loc(s, "annuity-factor")),
                   V("cap_sto_c", NoT, s)) : s \in mm.sto_tuples}))

\* lines 546-562
def_costs_inv(mm) ==
    Rel(Single(V("costs", NoT, <<"Inv">>)), "==",
        Expr({Term(RMul(process_loc(p, "inv-cost"),
                        process_loc(p, "annuity-factor")),
                   V("cap_pro_new", NoT, p)) : p \in mm.pro_tuples}
             \cup
             {Term(RMul(transmission_loc(t, "inv-cost"),
                        transmission_loc(t, "annuity-factor")),
                   V("cap_tra_new", NoT, t)) : t \in mm.tra_tuples}
             \cup
             {Term(RMul(storage_loc(s, "inv-cost-p"),
                        storage_loc(s, "annuity-factor")),
                   V("cap_sto_p_new", NoT, s)) : s \in mm.sto_tuples}
             \cup
             {Term(RMul(storage_loc(s, "inv-cost-c"),
                        storage_loc(s, "annuity-factor")),
                   V("cap_sto_c_new", NoT, s)) : s \in mm.sto_tuples}))

\* lines 564-572
def_costs_fix(mm) ==
    Rel(Single(V("costs", NoT, <<"Fix">>)), "==",
        Expr({Term(process_loc(p, "fix-cost"), V("cap_pro", NoT, p)) :
                  p \in mm.pro_tuples}
             \cup
             {Term(transmission_loc(t, "fix-cost"), V("cap_tra", NoT, t)) :
                  t \in mm.tra_tuples}
             \cup
             {Term(storage_loc(s, "fix-cost-p"), V("cap_sto_p", NoT, s)) :
                  s \in mm.sto_tuples}
             \cup
             {Term(storage_loc(s, "fix-cost-c"), V("cap_sto_c", NoT, s)) :
                  s \in mm.sto_tuples}))

\* lines 574-588
def_costs_var(mm) ==
    LET tms == Range(mm.tm)
        Mul3(a, b, c) == RMul(RMul(a, b), c)
    IN
        Rel(Single(V("costs", NoT, <<"Var">>)), "==",
            Expr({Term(Mul3(R(mm.dt), process_loc(p, "var-cost"), mm.weight),
                       V("e_pro_out", tm, p)) :
                      tm \in tms, p \in mm.pro_tuples}
                 \cup
                 {Term(Mul3(R(mm.dt), transmission_loc(t, "var-cost"),
                            mm.weight),
                       V("e_tra_in", tm, t)) :
                      tm \in tms, t \in mm.tra_tuples}
                 \cup
                 {Term(RMul(storage_loc(s, "var-cost-c"), mm.weight),
                       V("e_sto_con", tm, s)) :
                      tm \in tms, s \in mm.sto_tuples}
                 \cup
                 {Term(Mul3(R(mm.dt), storage_loc(s, "var-cost-p"), mm.weight),
                       V(n, tm, s)) :
                      n \in {"e_sto_in", "e_sto_out"},
                      tm \in tms, s \in mm.sto_tuples}))

\* lines 590-596
def_costs_fuel(mm) ==
    LET tms == Range(mm.tm)
        Mul3(a, b, c) == RMul(RMul(a, b), c)
    IN
        Rel(Single(V("costs", NoT, <<"Fuel">>)), "==",
            Expr({Term(Mul3(R(mm.dt), commodity_loc(c, "price"), mm.weight),
                       V("e_co_stock", tm, c)) :
                      tm \in tms,
                      c \in {x \in mm.com_tuples : x[2] \in mm.com_stock}}))

\* variant: a cost type without a case yields no constraint
def_costs_rule_skip(mm, cost_type) ==
    IF cost_type = "Inv" THEN def_costs_inv(mm)
    ELSE IF cost_type = "Fix" THEN def_costs_fix(mm)
    ELSE IF cost_type = "Var" THEN def_costs_var(mm)
    ELSE IF cost_type = "Fuel" THEN def_costs_fuel(mm)
    ELSE Skip

def_costs_rule(mm, cost_type) ==
    IF cost_type = "Inv" THEN def_costs_inv(mm)
    ELSE IF cost_type = "Fix" THEN def_costs_fix(mm)
    ELSE IF cost_type = "Var" THEN def_costs_var(mm)
    ELSE IF cost_type = "Fuel" THEN def_costs_fuel(mm)
    ELSE NotImplementedError

\* variant: the fuel bill is left out of the objective
obj_rule_no_fuel(mm) ==
    Expr({Term(ROne, v) :
             v \in {x \in mm.vars : x[1] = "costs" /\ x[3] # <<"Fuel">>}})

obj_rule(mm) ==
    Expr({Term(ROne, v) : v \in {x \in mm.vars : x[1] = "costs"}})

(***************************************************************************)
(* Equation declaration: pyomo.Constraint(index, rule) calls the rule for  *)
(* every element of the index set and keeps what is not skipped; an        *)
(* exception in a rule, or a variable indexed outside its index set,       *)
(* aborts create_model.                                                    *)
(***************************************************************************)
Refs(body) ==
    {x[2] : x \in DOMAIN body.lo \cup DOMAIN body.lhs \cup DOMAIN body.rhs}
        \ {Unit}

Exceptions == {"KeyError", "NotImplementedError"}

\* what the rule returned for index (t, key)
Called(name, t, key, body) ==
    [name |-> name, t |-> t, key |-> key, body |-> body]

Constraint(name, results) ==
    /\ pc = name
    /\ LET thrown == {r.body.op : r \in results} \cap Exceptions
           unallocated ==
              \E r \in results : ~(Refs(r.body) \subseteq m.vars)
           kept == {r \in results : r.body.op # "Skip"}
       IN IF thrown # {}
          THEN Fail(CHOOSE e \in thrown : TRUE)
          ELSE IF unallocated
          THEN Fail("KeyError")
          ELSE /\ m' = [m EXCEPT !.cons = @ \cup kept,
                                 !.declared = @ \cup {name}]
               /\ pc' = NextStep(name)
               /\ result' = result
    /\ UNCHANGED <<data, timesteps, dt, bal, sol, cost_types, ann>>

Scalar == {<<NoT, <<>>>>}

\* commodity
m_res_demand ==
    Constraint("res_demand",
        {Called("res_demand", i[1], i[2],
                res_demand_rule(m, i[1], i[2][1], i[2][2], i[2][3])) :
            i \in TimeIndex(m.tm, m.com_tuples)})
m_def_e_co_stock ==
    Constraint("def_e_co_stock",
        {Called("def_e_co_stock", i[1], i[2],
                def_e_co_stock_rule(m, i[1], i[2][1], i[2][2], i[2][3])) :
            i \in TimeIndex(m.tm, m.com_tuples)})
m_res_stock_step ==
    Constraint("res_stock_step",
        {Called("res_stock_step", i[1], i[2],
                res_stock_step_rule(m, i[1], i[2][1], i[2][2], i[2][3])) :
            i \in TimeIndex(m.tm, m.com_tuples)})
m_res_stock_total ==
    Constraint("res_stock_total",
        {Called("res_stock_total", i[1], i[2],
                res_stock_total_rule(m, i[2][1], i[2][2], i[2][3])) :
            i \in KeyIndex(m.com_tuples)})

\* process
m_def_process_capacity ==
    Constraint("def_process_capacity",
        {Called("def_process_capacity", i[1], i[2],
                def_process_capacity_rule(m, i[2][1], i[2][2], i[2][3], i[2][4])) :
            i \in KeyIndex(m.pro_tuples)})
m_def_process_output ==
    Constraint("def_process_output",
        {Called("def_process_output", i[1], i[2],
                def_process_output_rule(m, i[1], i[2][1], i[2][2], i[2][3], i[2][4])) :
            i \in TimeIndex(m.tm, m.pro_tuples)})
m_def_intermittent_supply ==
    Constraint("def_intermittent_supply",
        {Called("def_intermittent_supply", i[1], i[2],
                def_intermittent_supply_rule(m, i[1], i[2][1], i[2][2], i[2][3], i[2][4])) :
            i \in TimeIndex(m.tm, m.pro_tuples)})
m_def_co2_emissions ==
    Constraint("def_co2_emissions",
        {Called("def_co2_emissions", i[1], i[2],
                def_co2_emissions_rule(m, i[1], i[2][1], i[2][2], i[2][3], i[2][4])) :
            i \in TimeIndex(m.tm, m.pro_tuples)})
m_res_process_output_by_capacity ==
    Constraint("res_process_output_by_capacity",
        {Called("res_process_output_by_capacity", i[1], i[2],
                res_process_output_by_capacity_rule(m, i[1], i[2][1], i[2][2], i[2][3], i[2][4])) :
            i \in TimeIndex(m.tm, m.pro_tuples)})
m_res_process_capacity ==
    Constraint("res_process_capacity",
        {Called("res_process_capacity", i[1], i[2],
                res_process_capacity_rule(m, i[2][1], i[2][2], i[2][3], i[2][4])) :
            i \in KeyIndex(m.pro_tuples)})

\* transmission
m_def_transmission_capacity ==
    Constraint("def_transmission_capacity",
        {Called("def_transmission_capacity", i[1], i[2],
                def_transmission_capacity_rule(m, i[2][1], i[2][2], i[2][3], i[2][4])) :
            i \in KeyIndex(m.tra_tuples)})
m_def_transmission_output ==
    Constraint("def_transmission_output",
        {Called("def_transmission_output", i[1], i[2],
                def_transmission_output_rule(m, i[1], i[2][1], i[2][2], i[2][3], i[2][4])) :
            i \in TimeIndex(m.tm, m.tra_tuples)})
m_res_transmission_input_by_capacity ==
    Constraint("res_transmission_input_by_capacity",
        {Called("res_transmission_input_by_capacity", i[1], i[2],
                res_transmission_input_by_capacity_rule(m, i[1], i[2][1], i[2][2], i[2][3], i[2][4])) :
            i \in TimeIndex(m.tm, m.tra_tuples)})
m_res_transmission_capacity ==
    Constraint("res_transmission_capacity",
        {Called("res_transmission_capacity", i[1], i[2],
                res_transmission_capacity_rule(m, i[2][1], i[2][2], i[2][3], i[2][4])) :
            i \in KeyIndex(m.tra_tuples)})
m_res_transmission_symmetry ==
    Constraint("res_transmission_symmetry",
        {Called("res_transmission_symmetry", i[1], i[2],
                res_transmission_symmetry_rule(m, i[2][1], i[2][2], i[2][3], i[2][4])) :
            i \in KeyIndex(m.tra_tuples)})

\* storage
m_def_storage_state ==
    Constraint("def_storage_state",
        {Called("def_storage_state", i[1], i[2],
                def_storage_state_rule(m, i[1], i[2][1], i[2][2], i[2][3])) :
            i \in TimeIndex(m.tm, m.sto_tuples)})
m_def_storage_power ==
    Constraint("def_storage_power",
        {Called("def_storage_power", i[1], i[2],
                def_storage_power_rule(m, i[2][1], i[2][2], i[2][3])) :
            i \in KeyIndex(m.sto_tuples)})
m_def_storage_capacity ==
    Constraint("def_storage_capacity",
        {Called("def_storage_capacity", i[1], i[2],
                def_storage_capacity_rule(m, i[2][1], i[2][2], i[2][3])) :
            i \in KeyIndex(m.sto_tuples)})
m_res_storage_input_by_power ==
    Constraint("res_storage_input_by_power",
        {Called("res_storage_input_by_power", i[1], i[2],
                res_storage_input_by_power_rule(m, i[1], i[2][1], i[2][2], i[2][3])) :
            i \in TimeIndex(m.tm, m.sto_tuples)})
m_res_storage_output_by_power ==
    Constraint("res_storage_output_by_power",
        {Called("res_storage_output_by_power", i[1], i[2],
                res_storage_output_by_power_rule(m, i[1], i[2][1], i[2][2], i[2][3])) :
            i \in TimeIndex(m.tm, m.sto_tuples)})
m_res_storage_state_by_capacity ==
    Constraint("res_storage_state_by_capacity",
        {Called("res_storage_state_by_capacity", i[1], i[2],
                res_storage_state_by_capacity_rule(m, i[1], i[2][1], i[2][2], i[2][3])) :
            i \in TimeIndex(m.t, m.sto_tuples)})
m_res_storage_power ==
    Constraint("res_storage_power",
        {Called("res_storage_power", i[1], i[2],
                res_storage_power_rule(m, i[2][1], i[2][2], i[2][3])) :
            i \in KeyIndex(m.sto_tuples)})
m_res_storage_capacity ==
    Constraint("res_storage_capacity",
        {Called("res_storage_capacity", i[1], i[2],
                res_storage_capacity_rule(m, i[2][1], i[2][2], i[2][3])) :
            i \in KeyIndex(m.sto_tuples)})
m_res_initial_and_final_storage_state ==
    Constraint("res_initial_and_final_storage_state",
        {Called("res_initial_and_final_storage_state", i[1], i[2],
                res_initial_and_final_storage_state_rule(m, i[1], i[2][1], i[2][2], i[2][3])) :
            i \in TimeIndex(m.t, m.sto_tuples)})

\* emissions
m_res_co2_emission ==
    Constraint("res_co2_emission",
        {Called("res_co2_emission", i[1], i[2],
                res_co2_emission_rule(m)) :
            i \in Scalar})

\* costs
m_def_costs ==
    Constraint("def_costs",
        {Called("def_costs", i[1], i[2],
                def_costs_rule(m, i[2][1])) :
            i \in KeyIndex({<<ct>> : ct \in m.cost_type})})

m_obj ==
    /\ pc = "obj"
    /\ m' = [m EXCEPT !.obj = [sense |-> "minimize", expr |-> obj_rule(m)]]
    /\ pc' = NextStep(pc)
    /\ UNCHANGED <<data, timesteps, dt, result, bal, sol, cost_types, ann>>

\* line 706: return m
m_return ==
    /\ pc = "return"
    /\ pc' = "done"
    /\ result' = Returned
    /\ UNCHANGED <<data, timesteps, dt, m, bal, sol, cost_types, ann>>

create_model ==
    \/ m_sets \/ m_params \/ m_vars
    \/ m_res_demand \/ m_def_e_co_stock \/ m_res_stock_step
    \/ m_res_stock_total
    \/ m_def_process_capacity \/ m_def_process_output
    \/ m_def_intermittent_supply \/ m_def_co2_emissions
    \/ m_res_process_output_by_capacity \/ m_res_process_capacity
    \/ m_def_transmission_capacity \/ m_def_transmission_output
    \/ m_res_transmission_input_by_capacity \/ m_res_transmission_capacity
    \/ m_res_transmission_symmetry
    \/ m_def_storage_state \/ m_def_storage_power \/ m_def_storage_capacity
    \/ m_res_storage_input_by_power \/ m_res_storage_output_by_power
    \/ m_res_storage_state_by_capacity \/ m_res_storage_power
    \/ m_res_storage_capacity \/ m_res_initial_and_final_storage_state
    \/ m_res_co2_emission \/ m_def_costs \/ m_obj \/ m_return

Next == create_model

Spec == Init /\ [][Next]_vars


(***************************************************************************)
(* Vocabulary of the properties.                                           *)
(***************************************************************************)
\* the declaration `name` has been executed and produced its constraints
Declared(name) == name \in m.declared
\* the declaration `name` has been executed, successfully or not
Attempted(name) ==
    Declared(name) \/ (pc = "failed" /\ result.at = name)

\* the constraints of family `name` generated for index (t, key)
ConsOf(name, t, key) ==
    {r \in m.cons : r.name = name /\ r.t = t /\ r.key = key}
Family(name) == {r \in m.cons : r.name = name}

\* the modelled timesteps of the horizon: all but the first
Modelled == {timesteps[i] : i \in 2..Len(timesteps)}

NegBag(b) ==
    [x \in {Term(RNeg(y[1]), y[2]) : y \in DOMAIN b} |->
        b[Term(RNeg(x[1]), x[2])]]

\* exactly one constraint of the family at the index, with this body
OneCon(name, t, key, lhs, op, rhs) ==
    ConsOf(name, t, key) =
        {[name |-> name, t |-> t, key |-> key, body |-> Rel(lhs, op, rhs)]}

\* the signed net flow at (tm, sit, com), stated over the input tables
NetFlow(pros, tras, stos, tm, sit, com) ==
    SetToBag(
        {Term(R(1), V("e_pro_in", tm, p)) :
            p \in {x \in pros : x[1] = sit /\ x[3] = com}}
        \cup {Term(R(-1), V("e_pro_out", tm, p)) :
            p \in {x \in pros : x[1] = sit /\ x[4] = com}}
        \cup {Term(R(1), V("e_tra_in", tm, t)) :
            t \in {x \in tras : x[1] = sit /\ x[4] = com}}
        \cup {Term(R(-1), V("e_tra_out", tm, t)) :
            t \in {x \in tras : x[2] = sit /\ x[4] = com}}
        \cup {Term(R(1), V("e_sto_in", tm, s)) :
            s \in {x \in stos : x[1] = sit /\ x[3] = com}}
        \cup {Term(R(-1), V("e_sto_out", tm, s)) :
            s \in {x \in stos : x[1] = sit /\ x[3] = com}})

DataNetFlow(tm, sit, com) ==
    NetFlow(data.process, data.transmission, data.storage, tm, sit, com)

OfType(type) == {c \in data.commodity : c[3] = type}

(***************************************************************************)
(* C2: once res_demand is declared, every modelled timestep tm and every   *)
(* commodity tuple (sit, com, Demand) has exactly one demand constraint,   *)
(* the inequality  -commodity_balance(tm, sit, com) >= demand[tm, sit,     *)
(* com].                                                                   *)
(***************************************************************************)
C2_DemandConstraint ==
    Declared("res_demand") =>
        \A tm \in Modelled : \A c \in OfType("Demand") :
            OneCon("res_demand", tm, c,
                   NegBag(DataNetFlow(tm, c[1], c[2])), ">=",
                   Expr({Const(demand_loc(tm, c[1], c[2]))}))

C2_Witness ==
    /\ Declared("res_demand")
    /\ Modelled # {}
    /\ \E tm \in Modelled : \E c \in OfType("Demand") :
          DataNetFlow(tm, c[1], c[2]) # EmptyBag

(***************************************************************************)
(* C6: once def_e_co_stock is declared, every modelled timestep tm and     *)
(* every commodity tuple (sit, com, Stock) has exactly one stock           *)
(* accounting constraint, the equality                                     *)
(* e_co_stock[tm, sit, com, Stock] == commodity_balance(tm, sit, com).     *)
(***************************************************************************)
C6_StockAccounting ==
    Declared("def_e_co_stock") =>
        \A tm \in Modelled : \A c \in OfType("Stock") :
            OneCon("def_e_co_stock", tm, c,
                   Single(V("e_co_stock", tm, c)), "==",
                   DataNetFlow(tm, c[1], c[2]))

C6_Witness ==
    /\ Declared("def_e_co_stock")
    /\ \E tm \in Modelled : \E c \in OfType("Stock") :
          DataNetFlow(tm, c[1], c[2]) # EmptyBag

(***************************************************************************)
(* C7: each capacity kind has, for every tuple of its table, exactly one   *)
(* identity  total == new + installed,  with the installed value of that   *)
(* tuple: process, transmission, storage power and storage capacity.       *)
(***************************************************************************)
CapacityIdentity(name, tuples, total, new, installed) ==
    Declared(name) =>
        /\ \A k \in tuples :
              OneCon(name, NoT, k, Single(V(total, NoT, k)), "==",
                     Expr({Term(ROne, V(new, NoT, k)), Const(installed[k])}))
        /\ Cardinality(Family(name)) = Cardinality(tuples)

C7_CapacityIdentities ==
    /\ CapacityIdentity("def_process_capacity", data.process,
                        "cap_pro", "cap_pro_new",
                        [k \in data.process |-> process_loc(k, "inst-cap")])
    /\ CapacityIdentity("def_transmission_capacity", data.transmission,
                        "cap_tra", "cap_tra_new",
                        [k \in data.transmission |-> transmission_loc(k, "inst-cap")])
    /\ CapacityIdentity("def_storage_power", data.storage,
                        "cap_sto_p", "cap_sto_p_new",
                        [k \in data.storage |-> storage_loc(k, "inst-cap-p")])
    /\ CapacityIdentity("def_storage_capacity", data.storage,
                        "cap_sto_c", "cap_sto_c_new",
                        [k \in data.storage |-> storage_loc(k, "inst-cap-c")])

C7_Witness ==
    /\ Declared("def_storage_capacity")
    /\ Cardinality(data.process) >= 2
    /\ Cardinality(data.transmission) = 2
    /\ Cardinality(data.storage) = 2

C9_WitnessSingle ==
    /\ Declared("res_initial_and_final_storage_state")
    /\ data.storage # {}
    /\ Len(timesteps) = 1

(***************************************************************************)
(* C10: once res_co2_emission is declared there is exactly one emission    *)
(* constraint:  weight * sum of co2_pro_out[tm, p] over all modelled       *)
(* timesteps and all process tuples  <=  max of the Commodity row          *)
(* (Global, CO2, Env).                                                     *)
(***************************************************************************)
C10_EmissionCap ==
    Declared("res_co2_emission") =>
        Family("res_co2_emission") =
            {[name |-> "res_co2_emission", t |-> NoT, key |-> <<>>,
              body |-> Rel(Expr({Term(m.weight, V("co2_pro_out", tm, p)) :
                                    tm \in Modelled, p \in data.process}),
                           "<=",
                           Expr({Const(commodity_loc(GlobalCO2, "max"))}))]}

C10_Witness ==
    /\ Declared("res_co2_emission")
    /\ Cardinality(Modelled) >= 2
    /\ Cardinality(data.process) >= 2
    /\ m.weight # ROne


(***************************************************************************)
(* C3: when def_storage_state has been executed, every storage tuple and   *)
(* every modelled timestep t has exactly one state-transition constraint,  *)
(* over content[prev(t)], e_sto_in[t], e_sto_out[t] and content[t] with    *)
(* coefficients 1, eff-in*dt, -dt/eff-out and -1, where prev(t) is the     *)
(* element before t in the timestep list, and content[prev(t)] is an       *)
(* allocated variable.                                                     *)
(***************************************************************************)
\* rhs - lhs of a relation, as one expression
Residual(body) == body.rhs (+) NegBag(body.lhs)

StorageTransition(s, i) ==
    LET t == timesteps[i]
        prev == timesteps[i - 1]
    IN /\ V("e_sto_con", prev, s) \in m.vars
       /\ \E r \in m.cons :
             /\ ConsOf("def_storage_state", t, s) = {r}
             /\ r.body.op = "=="
             /\ Residual(r.body) =
                   Expr({Term(ROne, V("e_sto_con", prev, s)),
                         Term(RMul(storage_loc(s, "eff-in"), R(dt)),
                              V("e_sto_in", t, s)),
                         Term(RNeg(RDiv(R(dt), storage_loc(s, "eff-out"))),
                              V("e_sto_out", t, s)),
                         Term(R(-1), V("e_sto_con", t, s))})

C3_PositionalPredecessor ==
    Attempted("def_storage_state") =>
        /\ Declared("def_storage_state")
        /\ \A s \in data.storage : \A i \in 2..Len(timesteps) :
              StorageTransition(s, i)

(***************************************************************************)
(* C4: when res_transmission_symmetry has been executed, it has succeeded  *)
(* and every transmission tuple (sin, sout, tra, com) has exactly one      *)
(* symmetry constraint cap_tra[sin, sout, tra, com] ==                     *)
(* cap_tra[sout, sin, tra, com] over two allocated variables.              *)
(***************************************************************************)
Mirror(t) == <<t[2], t[1], t[3], t[4]>>

C4_SymmetryForEveryTuple ==
    Attempted("res_transmission_symmetry") =>
        /\ Declared("res_transmission_symmetry")
        /\ \A t \in data.transmission :
              /\ {V("cap_tra", NoT, t), V("cap_tra", NoT, Mirror(t))}
                    \subseteq m.vars
              /\ OneCon("res_transmission_symmetry", NoT, t,
                        Single(V("cap_tra", NoT, t)), "==",
                        Single(V("cap_tra", NoT, Mirror(t))))

(***************************************************************************)
(* C8.  Supply-intermittent commodities are those whose name carries type  *)
(* SupIm in a Commodity row.                                               *)
(***************************************************************************)
SupImNames == {c[2] : c \in OfType("SupIm")}

IntermittentEquality(tm, p) ==
    OneCon("def_intermittent_supply", tm, p,
           Single(V("e_pro_in", tm, p)), "==",
           Expr({Term(supim_loc(tm, p[1], p[3]), V("cap_pro", NoT, p))}))

OutputCeiling(tm, p) ==
    OneCon("res_process_output_by_capacity", tm, p,
           Single(V("e_pro_out", tm, p)), "<=", Single(V("cap_pro", NoT, p)))

Converter == <<"A", "conv", "Elec", "Elec">>

BalTables ==
    {[commodity |-> ComUniverse, process |-> p,
      transmission |-> t, storage |-> s,
      nan |-> {}, dropped |-> {}] :
        p \in SUBSET (ProUniverse \cup {Converter}),
        t \in SUBSET TraUniverse, s \in SUBSET StoUniverse}

InitBal ==
    /\ data \in BalTables
    /\ timesteps \in {h \in Horizons : Len(h) = MaxTime}
    /\ dt = 1
    /\ m = EmptyModel
    /\ pc = "sets"
    /\ result = Running
    /\ bal = NoCall
    /\ sol = NoValues
    /\ cost_types = CostTypes
    /\ ann = NoCall

\* the enumerations of a finite set
Orders(S) ==
    {o \in [1..Cardinality(S) -> S] : Range(o) = S}

\* one call per behaviour is followed: a call leaves the model unchanged, so
\* a later call starts from the same model
call_commodity_balance ==
    /\ pc = "res_demand"
    /\ bal = NoCall
    /\ \E pro_order \in Orders(m.pro_tuples),
          tra_order \in Orders(m.tra_tuples),
          sto_order \in Orders(m.sto_tuples),
          tm \in Range(m.tm), sit \in m.sit, com \in m.com :
            bal' = [called |-> TRUE,
                    pro_order |-> pro_order, tra_order |-> tra_order,
                    sto_order |-> sto_order,
                    tm |-> tm, sit |-> sit, com |-> com,
                    value |-> commodity_balance_in_order(
                                 pro_order, tra_order, sto_order,
                                 tm, sit, com)]
    /\ UNCHANGED <<data, timesteps, dt, m, pc, result, sol, cost_types, ann>>

NextBal == m_sets \/ m_params \/ m_vars \/ call_commodity_balance

SpecBal == InitBal /\ [][NextBal]_vars

(***************************************************************************)
(* C1: a call commodity_balance(m, tm, sit, com) returns +e_pro_in of the  *)
(* processes at sit with input com, -e_pro_out of those with output com,   *)
(* +e_tra_in of the transmissions from sit, -e_tra_out of those to sit,    *)
(* +e_sto_in - e_sto_out of the storages at (sit, com), each matching      *)
(* tuple once per role and nothing else, whatever the iteration order of   *)
(* the tuple sets, and leaves the model as it was.                         *)
(***************************************************************************)
C1_BalanceIsNetFlow ==
    [][bal' # bal =>
          /\ BagOfSeq(bal'.value) =
                NetFlow(m.pro_tuples, m.tra_tuples, m.sto_tuples,
                        bal'.tm, bal'.sit, bal'.com)
          /\ m' = m
          /\ data' = data]_vars

\* a call at a site and commodity where a converter counts in both roles,
\* next to other processes, a transmission in each direction and a storage
C1_Witness ==
    /\ bal.called
    /\ bal.sit = "A" /\ bal.com = "Elec"
    /\ Converter \in m.pro_tuples
    /\ Len(bal.pro_order) >= 3
    /\ Len(bal.tra_order) = 2
    /\ Len(bal.sto_order) = 2
    /\ Len(bal.value) >= 8


(***************************************************************************)
(* Values for the variables of a returned model (what a solver loads into  *)
(* it): the variables receive values one at a time, and a value is kept    *)
(* only if every constraint whose variables all have values holds.         *)
(***************************************************************************)
\* flows and capacities take the values 0, 100, ..., 100 * MaxLevel
MaxLevel == 3
Levels == {R(100 * k) : k \in 0..MaxLevel}

RECURSIVE SumTerms(_, _, _)
SumTerms(expr, terms, s) ==
    IF terms = {} THEN RZero
    ELSE LET x == CHOOSE y \in terms : TRUE
             val == IF x[2] = Unit THEN ROne ELSE s[x[2]]
         IN RAdd(RMul(RMul(x[1], val), R(expr[x])),
                 SumTerms(expr, terms \ {x}, s))

\* value of a linear expression under the values s
Value(expr, s) == SumTerms(expr, DOMAIN expr, s)

Holds(body, s) ==
    CASE body.op = "==" -> Value(body.lhs, s) = Value(body.rhs, s)
      [] body.op = "<=" -> RLe(Value(body.lhs, s), Value(body.rhs, s))
      [] body.op = ">=" -> RLe(Value(body.rhs, s), Value(body.lhs, s))
      [] body.op = "range" ->
            /\ RLe(Value(body.lo, s), Value(body.lhs, s))
            /\ RLe(Value(body.lhs, s), Value(body.rhs, s))

\* domain NonNegativeReals, and every fully valued constraint holds
Consistent(s) ==
    /\ \A v \in DOMAIN s : RLe(RZero, s[v])
    /\ \A r \in m.cons : Refs(r.body) \subseteq DOMAIN s => Holds(r.body, s)

\* the same for the constraints that mention v, the others being unchanged
Admits(s, v) ==
    /\ RLe(RZero, s[v])
    /\ \A r \in m.cons :
          (v \in Refs(r.body) /\ Refs(r.body) \subseteq DOMAIN s)
              => Holds(r.body, s)

\* the equalities var == expr whose expression is fully valued
Defining(v, s) ==
    {r \in m.cons : /\ r.body.op = "=="
                    /\ r.body.lhs = Single(v)
                    /\ Refs(r.body) \ {v} \subseteq DOMAIN s}

Unvalued(s) == m.vars \ DOMAIN s

\* the variables some equality var == expr defines
Defined == {v \in m.vars : \E r \in m.cons :
                r.body.op = "==" /\ r.body.lhs = Single(v)}

\* the variable valued next: one that an equality determines, if any, else
\* one that no equality defines
NextVar(s) ==
    IF \E v \in Unvalued(s) : Defining(v, s) # {}
    THEN CHOOSE v \in Unvalued(s) : Defining(v, s) # {}
    ELSE IF Unvalued(s) \ Defined # {}
    THEN CHOOSE v \in Unvalued(s) \ Defined : TRUE
    ELSE CHOOSE v \in Unvalued(s) : TRUE

Candidates(v, s) ==
    IF Defining(v, s) # {}
    THEN {Value(r.body.rhs, s) : r \in Defining(v, s)}
    ELSE Levels

Complete(s) == pc = "done" /\ result = Returned /\ DOMAIN s = m.vars

load_value ==
    /\ pc = "done"
    /\ result = Returned
    /\ Unvalued(sol) # {}
    /\ \E v \in {NextVar(sol)} :
          \E val \in Candidates(v, sol) :
             \E s \in {[x \in DOMAIN sol \cup {v} |->
                           IF x = v THEN val ELSE sol[x]]} :
                Admits(s, v) /\ sol' = s
    /\ UNCHANGED <<data, timesteps, dt, m, pc, result, bal, cost_types, ann>>

(***************************************************************************)
(* The one-plant system: site A, demand commodity Elec (100 at every       *)
(* modelled timestep), stock commodity Coal, process plant (Coal -> Elec,  *)
(* eff 0.5, cap-lo 0, cap-up 1000, inst-cap 0, no fixed or variable cost). *)
(***************************************************************************)
Plant == <<"A", "plant", "Coal", "Elec">>
Coal == <<"A", "Coal", "Stock">>

InitOnePlant ==
    /\ data = [commodity |-> ComAlways, process |-> {Plant},
               transmission |-> {}, storage |-> {},
               nan |-> {}, dropped |-> {}]
    /\ timesteps = <<1, 2, 3>>
    /\ dt = 1
    /\ m = EmptyModel
    /\ pc = "sets"
    /\ result = Running
    /\ bal = NoCall
    /\ sol = NoValues
    /\ cost_types = CostTypes
    /\ ann = NoCall

NextOnePlant == create_model \/ load_value

SpecOnePlant == InitOnePlant /\ [][NextOnePlant]_vars

\* the objective value of a complete valuation
TotalCost(s) == Value(m.obj.expr, s)

CostOf(ct, s) == s[V("costs", NoT, <<ct>>)]

\* cost of input flow 200 at every modelled timestep with new capacity cap
PlanCost(cap) ==
    RAdd(RMul(R(cap), RMul(process_loc(Plant, "inv-cost"),
                           process_loc(Plant, "annuity-factor"))),
         RMul(R(200 * Cardinality(Modelled)),
              RMul(RMul(R(dt), commodity_loc(Coal, "price")), m.weight)))

InputIs200(s) ==
    \A tm \in Modelled : s[V("e_pro_in", tm, Plant)] = R(200)

FuelAndInvestmentOnly(s) ==
    /\ CostOf("Fix", s) = RZero
    /\ CostOf("Var", s) = RZero
    /\ TotalCost(s) = RAdd(CostOf("Fuel", s), CostOf("Inv", s))

\* C5 as stated: a valuation that satisfies the constraints at a cost not
\* above that of (input 200, new capacity 200) is cost-minimal only with
\* input flow 200 at every modelled timestep and new capacity 200, the
\* cost being Fuel plus Investment.
C5_NewCapacity200 ==
    (Complete(sol) /\ Consistent(sol) /\ RLe(TotalCost(sol), PlanCost(200)))
        => /\ InputIs200(sol)
           /\ sol[V("cap_pro_new", NoT, Plant)] = R(200)
           /\ FuelAndInvestmentOnly(sol)

\* C5 amended: no valuation that satisfies the constraints costs less than
\* (input 200 at every modelled timestep, new capacity 100), and one that
\* costs as much has input flow 200 at every modelled timestep, new
\* capacity 100 (the output 100 is what the capacity bounds), and a total
\* cost of Fuel plus Investment only.
C5_NewCapacity100 ==
    (Complete(sol) /\ Consistent(sol)) =>
        /\ RLe(PlanCost(100), TotalCost(sol))
        /\ TotalCost(sol) = PlanCost(100) =>
              /\ InputIs200(sol)
              /\ sol[V("cap_pro_new", NoT, Plant)] = R(100)
              /\ FuelAndInvestmentOnly(sol)

\* the minimum is attained
C5_Witness ==
    /\ Complete(sol)
    /\ Consistent(sol)
    /\ TotalCost(sol) = PlanCost(100)

(***************************************************************************)
(* C11: the objective of a returned model is the sum of the four cost      *)
(* variables costs[Inv], costs[Fix], costs[Var], costs[Fuel], each with    *)
(* coefficient 1 and nothing else, its sense is minimize, and each cost    *)
(* variable occurs in exactly one constraint: an equality of the family    *)
(* def_costs whose left-hand side is that variable alone.                  *)
(***************************************************************************)
CostVar(ct) == V("costs", NoT, <<ct>>)

C11_ObjectiveIsCostSum ==
    result = Returned =>
        /\ m.obj.sense = "minimize"
        /\ m.obj.expr =
              SetToBag({Term(ROne, CostVar(ct)) :
                           ct \in {"Inv", "Fix", "Var", "Fuel"}})
        /\ \A ct \in {"Inv", "Fix", "Var", "Fuel"} :
              /\ Cardinality({r \in m.cons : CostVar(ct) \in Refs(r.body)}) = 1
              /\ \A r \in m.cons :
                    CostVar(ct) \in Refs(r.body) =>
                        /\ r.name = "def_costs"
                        /\ r.key = <<ct>>
                        /\ r.body.op = "=="
                        /\ r.body.lhs = Single(CostVar(ct))
                        /\ CostVar(ct) \notin {x[2] : x \in DOMAIN r.body.rhs}

C11_Witness ==
    /\ result = Returned
    /\ Cardinality(Family("def_costs")) = 4
    /\ data.process # {}
    /\ data.storage # {}

\* the factor dt * unit cost * weight the cost sums apply to a flow
PerYear(cost) ==
    RMul(RMul(R(dt), cost), RNorm(<<HoursPerYear, Len(timesteps) * dt>>))

(***************************************************************************)
(* C12: once def_costs is declared, the constraint of cost type Var is the *)
(* equality of costs[Var] with the sum, over every modelled timestep and   *)
(* every tuple, of quantity * dt * unit cost * weight, for process output  *)
(* (var-cost), transmission input (var-cost), storage content (var-cost-c) *)
(* and storage input and output (var-cost-p): all four kinds of term carry *)
(* both dt and weight.                                                     *)
(***************************************************************************)
C12_VariableCostAllWithDt ==
    Declared("def_costs") =>
        OneCon("def_costs", NoT, <<"Var">>,
               Single(CostVar("Var")), "==",
               SetToBag(
                   {Term(PerYear(process_loc(p, "var-cost")),
                         V("e_pro_out", tm, p)) :
                       tm \in Modelled, p \in data.process}
                   \cup
                   {Term(PerYear(transmission_loc(t, "var-cost")),
                         V("e_tra_in", tm, t)) :
                       tm \in Modelled, t \in data.transmission}
                   \cup
                   {Term(PerYear(storage_loc(s, "var-cost-c")),
                         V("e_sto_con", tm, s)) :
                       tm \in Modelled, s \in data.storage}
                   \cup
                   {Term(PerYear(storage_loc(s, "var-cost-p")),
                         V(n, tm, s)) :
                       n \in {"e_sto_in", "e_sto_out"},
                       tm \in Modelled, s \in data.storage}))

(***************************************************************************)
(* C13: once def_costs is declared, the constraint of cost type Inv is the *)
(* equality of costs[Inv] with the sum of cap_pro_new * inv-cost *         *)
(* annuity-factor over the process tuples, cap_tra_new * inv-cost *        *)
(* annuity-factor over the transmission tuples, and cap_sto_p_new *        *)
(* inv-cost-p * annuity-factor + cap_sto_c_new * inv-cost-c *              *)
(* annuity-factor over the storage tuples; no total or installed capacity  *)
(* occurs in it, and every term uses the costs of its own tuple.           *)
(***************************************************************************)
C13_InvestmentCost ==
    Declared("def_costs") =>
        /\ OneCon("def_costs", NoT, <<"Inv">>,
                  Single(CostVar("Inv")), "==",
                  SetToBag(
                      {Term(RMul(process_loc(p, "inv-cost"),
                                 process_loc(p, "annuity-factor")),
                            V("cap_pro_new", NoT, p)) : p \in data.process}
                      \cup
                      {Term(RMul(transmission_loc(t, "inv-cost"),
                                 transmission_loc(t, "annuity-factor")),
                            V("cap_tra_new", NoT, t)) :
                          t \in data.transmission}
                      \cup
                      {Term(RMul(storage_loc(s, "inv-cost-p"),
                                 storage_loc(s, "annuity-factor")),
                            V("cap_sto_p_new", NoT, s)) : s \in data.storage}
                      \cup
                      {Term(RMul(storage_loc(s, "inv-cost-c"),
                                 storage_loc(s, "annuity-factor")),
                            V("cap_sto_c_new", NoT, s)) : s \in data.storage}))
        /\ \A r \in ConsOf("def_costs", NoT, <<"Inv">>) :
              \A v \in Refs(r.body) :
                  v[1] \in {"costs", "cap_pro_new", "cap_tra_new",
                            "cap_sto_p_new", "cap_sto_c_new"}

C13_Witness ==
    /\ Declared("def_costs")
    /\ data.process = ProUniverse
    /\ data.transmission = TraUniverse
    /\ data.storage = StoUniverse

(***************************************************************************)
(* C14: once def_costs is declared, the constraint of cost type Fuel is    *)
(* the equality of costs[Fuel] with the sum, over every modelled timestep  *)
(* and every commodity tuple of type Stock, of e_co_stock * dt * price *   *)
(* weight; the e_co_stock variable of a tuple of another type has no term. *)
(***************************************************************************)
C14_FuelCostOfStockTuples ==
    Declared("def_costs") =>
        OneCon("def_costs", NoT, <<"Fuel">>,
               Single(CostVar("Fuel")), "==",
               SetToBag({Term(PerYear(commodity_loc(c, "price")),
                              V("e_co_stock", tm, c)) :
                            tm \in Modelled, c \in OfType("Stock")}))

(***************************************************************************)
(* C16: once def_process_output is declared, every modelled timestep tm    *)
(* and every process tuple p has exactly one constraint of that family,    *)
(* the equality e_pro_out[tm, p] == e_pro_in[tm, p] * eff(p).              *)
(***************************************************************************)
C16_ProcessOutput ==
    Declared("def_process_output") =>
        /\ \A tm \in Modelled : \A p \in data.process :
              OneCon("def_process_output", tm, p,
                     Single(V("e_pro_out", tm, p)), "==",
                     SetToBag({Term(process_loc(p, "eff"),
                                    V("e_pro_in", tm, p))}))
        /\ Cardinality(Family("def_process_output")) =
              Cardinality(Modelled) * Cardinality(data.process)

C16_Witness ==
    /\ Declared("def_process_output")
    /\ Cardinality(Modelled) >= 2
    /\ Cardinality(data.process) >= 2

C18_AnnualStockCap ==
    Declared("res_stock_total") =>
        \A c \in OfType("Stock") :
            OneCon("res_stock_total", NoT, c,
                   SetToBag({Term(PerYear(ROne), V("e_co_stock", tm, c)) :
                                tm \in Modelled}),
                   "<=",
                   SetToBag({Const(commodity_loc(c, "max"))}))

C18_Witness ==
    /\ Declared("res_stock_total")
    /\ Cardinality(Modelled) >= 2
    /\ dt # 1
    /\ Cardinality(OfType("Stock")) >= 2

(***************************************************************************)
(* Builds whose set m.cost_type is initialised with further cost types,    *)
(* as the docstring of def_costs_rule invites ("to change or add cost      *)
(* types, add/change entries there").                                      *)
(***************************************************************************)
\* cost types def_costs_rule has no case for
OtherCostTypes == {"Depreciation", "Tax"}

CostTables ==
    {[commodity |-> ComAlways \cup c, process |-> p,
      transmission |-> {}, storage |-> s,
      nan |-> {}, dropped |-> {}] :
        c \in SUBSET {<<"A", "Wind", "SupIm">>},
        p \in SUBSET {<<"A", "plant", "Coal", "Elec">>,
                      <<"A", "wt", "Wind", "Elec">>},
        s \in SUBSET {<<"A", "bat", "Elec">>}}

InitCost ==
    /\ data \in CostTables
    /\ timesteps \in {h \in Horizons : Len(h) = MaxTime}
    /\ dt = 1
    /\ m = EmptyModel
    /\ pc = "sets"
    /\ result = Running
    /\ bal = NoCall
    /\ sol = NoValues
    /\ cost_types \in {CostTypes \cup o : o \in SUBSET OtherCostTypes}
    /\ ann = NoCall

NextCost == create_model

SpecCost == InitCost /\ [][NextCost]_vars

(***************************************************************************)
(* C15: when m.cost_type holds a cost type other than Inv, Fix, Var and    *)
(* Fuel, create_model never returns a model, and once the declaration of   *)
(* def_costs has been executed the build has failed there with             *)
(* NotImplementedError (unknown cost type).                                *)
(***************************************************************************)
C15_UnknownCostTypeFails ==
    ~(cost_types \subseteq CostTypes) =>
        /\ result # Returned
        /\ pc # "done"
        /\ "def_costs" \notin m.declared
        /\ m.obj.sense = "none"
        /\ Attempted("def_costs") =>
              /\ pc = "failed"
              /\ result = Raised("NotImplementedError", "def_costs")

C15_Witness ==
    /\ "Depreciation" \in cost_types
    /\ pc = "failed"
    /\ result = Raised("NotImplementedError", "def_costs")
    /\ data.process # {}

(***************************************************************************)
(* The parameters of models built over horizons of up to MaxHorizon        *)
(* consecutive timesteps.                                                  *)
(***************************************************************************)
MaxHorizon == 24

\* the horizon of n consecutive timesteps that starts at `first`
Consecutive(first, n) == [i \in 1..n |-> first + i - 1]

InitWeight ==
    /\ data = [commodity |-> ComAlways, process |-> {},
               transmission |-> {}, storage |-> {},
               nan |-> {}, dropped |-> {}]
    /\ timesteps \in {Consecutive(first, n) :
                         first \in {0, 1}, n \in 0..MaxHorizon}
    /\ dt \in Durations
    /\ m = EmptyModel
    /\ pc = "sets"
    /\ result = Running
    /\ bal = NoCall
    /\ sol = NoValues
    /\ cost_types = CostTypes
    /\ ann = NoCall

NextWeight == m_sets \/ m_params

SpecWeight == InitWeight /\ [][NextWeight]_vars

(***************************************************************************)
(* C19: once the parameters are set, m.weight is 8760 divided by (the      *)
(* number of timesteps given to create_model times dt); for a horizon of   *)
(* 24 timesteps and dt = 1 it is 365.                                      *)
(***************************************************************************)
C19_Weight ==
    pc = "vars" =>
        /\ RMul(m.weight, R(Len(timesteps) * dt)) = R(HoursPerYear)
        /\ (Len(timesteps) = 24 /\ dt = 1) => m.weight = R(365)

C19_Witness ==
    /\ pc = "vars"
    /\ Len(timesteps) = 24
    /\ dt = 1
    /\ m.weight = R(365)

(***************************************************************************)
(* annuity_factor (lines 709-728), called with floats or, as read_excel    *)
(* does, with arrays; the arithmetic is exact here, rounding is left out.  *)
(***************************************************************************)
\* depreciation periods -MaxYears..MaxYears are explored
MaxYears == 3

\* interest rates explored: -3/2, -1, -1/2, 0, 1/2, 1, 3/2, 2
Rates == {RNorm(<<k, 2>>) : k \in -3..4}

\* how the arguments are passed
ArgTypes == {"float", "ndarray"}

\* base ** n for n >= 0
RECURSIVE RPowNat(_, _)
RPowNat(base, n) == IF n = 0 THEN ROne ELSE RMul(base, RPowNat(base, n - 1))

\* base ** n, base # 0 or n >= 0
RPow(base, n) ==
    IF n >= 0 THEN RPowNat(base, n) ELSE RDiv(ROne, RPowNat(base, -n))

ZeroDivisionError == [kind |-> "ZeroDivisionError"]
Number(q) == [kind |-> "value", value |-> q]
\* the floats nan and +-inf an array operation yields where a float raises
NaN == [kind |-> "value", value |-> "nan"]
Inf(sign) == [kind |-> "value", value |-> <<"inf", sign>>]

\* line 728: (1+i)**n * i / ((1+i)**n - 1)
annuity_factor(n, i, type) ==
    LET base == RAdd(ROne, i)
    IN IF base = RZero /\ n < 0
       THEN \* 0.0 ** n: a float raises, an array gives inf and then
            \* inf * i / (inf - 1) = nan
            IF type = "float" THEN ZeroDivisionError ELSE NaN
       ELSE LET q == RPow(base, n)
                num == RMul(q, i)
                den == RAdd(q, RNeg(ROne))
            IN IF den = RZero
               THEN IF type = "float" THEN ZeroDivisionError
                    ELSE IF num = RZero THEN NaN
                    ELSE Inf(IF RLe(num, RZero) THEN -1 ELSE 1)
               ELSE Number(RDiv(num, den))

InitAnnuity ==
    /\ data = [commodity |-> ComAlways, process |-> {},
               transmission |-> {}, storage |-> {},
               nan |-> {}, dropped |-> {}]
    /\ timesteps = <<>>
    /\ dt = 1
    /\ m = EmptyModel
    /\ pc = "sets"
    /\ result = Running
    /\ bal = NoCall
    /\ sol = NoValues
    /\ cost_types = CostTypes
    /\ ann = NoCall

call_annuity_factor ==
    /\ ann = NoCall
    /\ \E n \in (-MaxYears)..MaxYears, i \in Rates, type \in ArgTypes :
          ann' = [called |-> TRUE, n |-> n, i |-> i, type |-> type,
                  out |-> annuity_factor(n, i, type)]
    /\ UNCHANGED <<data, timesteps, dt, m, pc, result, bal, sol, cost_types>>

NextAnnuity == call_annuity_factor

SpecAnnuity == InitAnnuity /\ [][NextAnnuity]_vars

(***************************************************************************)
(* C20: a call annuity_factor(n, i) with n <= 0, or with (1+i)^n = 1,      *)
(* fails with a numeric error and returns no value; a call with n > 0,     *)
(* i > -1 and (1+i)^n # 1 returns (1+i)^n * i / ((1+i)^n - 1).             *)
(***************************************************************************)
C20_AnnuityDomain ==
    ann.called =>
        LET base == RAdd(ROne, ann.i)
        IN /\ (ann.n <= 0 \/ RPow(base, ann.n) = ROne) =>
                  ann.out = ZeroDivisionError
           /\ (ann.n > 0 /\ ~RLe(ann.i, R(-1)) /\ RPow(base, ann.n) # ROne) =>
                  ann.out =
                      Number(RDiv(RMul(RPow(base, ann.n), ann.i),
                                  RAdd(RPow(base, ann.n), RNeg(ROne))))

(***************************************************************************)
(* C21: once the variables are allocated, every variable has the domain    *)
(* NonNegativeReals, and the variables are exactly: the total and new      *)
(* capacities of process, transmission, storage power and storage content, *)
(* one per key tuple; the process, transmission and storage flows, the     *)
(* process CO2 and the stock purchase, one per modelled timestep and key   *)
(* tuple (none for the first timestep); the storage content, one per       *)
(* timestep, the first included, and storage tuple; one cost variable per  *)
(* cost type.                                                              *)
(***************************************************************************)
PerKey(names, tuples) == {V(n, NoT, k) : n \in names, k \in tuples}
PerStep(names, steps, tuples) ==
    {V(n, t, k) : n \in names, t \in steps, k \in tuples}

C21_VariableIndexSets ==
    m.within # {} =>
        /\ \A w \in m.within : w[2] = "NonNegativeReals"
        /\ \A v \in m.vars : <<v[1], "NonNegativeReals">> \in m.within
        /\ m.vars =
              PerKey({"cap_pro", "cap_pro_new"}, data.process)
              \cup PerKey({"cap_tra", "cap_tra_new"}, data.transmission)
              \cup PerKey({"cap_sto_p", "cap_sto_p_new",
                           "cap_sto_c", "cap_sto_c_new"}, data.storage)
              \cup PerStep({"e_pro_in", "e_pro_out", "co2_pro_out"},
                           Modelled, data.process)
              \cup PerStep({"e_tra_in", "e_tra_out"},
                           Modelled, data.transmission)
              \cup PerStep({"e_sto_in", "e_sto_out"}, Modelled, data.storage)
              \cup PerStep({"e_co_stock"}, Modelled, data.commodity)
              \cup PerStep({"e_sto_con"}, Range(timesteps), data.storage)
              \cup PerKey({"costs"},
                          {<<ct>> : ct \in {"Inv", "Fix", "Var", "Fuel"}})

C21_Witness ==
    /\ m.within # {}
    /\ Len(timesteps) >= 2
    /\ data.process # {}
    /\ data.transmission # {}
    /\ data.storage # {}
    /\ \E s \in data.storage : V("e_sto_con", timesteps[1], s) \in m.vars

\* the sets of create_model exist
SetsBuilt == m.cost_type # {}

(***************************************************************************)
(* C22: once the sets are built, com_supim, com_stock and com_demand are   *)
(* pairwise disjoint, and for every row (site, com, type) of the Commodity *)
(* table com is in com_supim exactly when type is SupIm, in com_stock      *)
(* exactly when type is Stock, in com_demand exactly when type is Demand.  *)
(***************************************************************************)
C22_SubsetsPartitionByType ==
    SetsBuilt =>
        /\ m.com_supim \cap m.com_stock = {}
        /\ m.com_supim \cap m.com_demand = {}
        /\ m.com_stock \cap m.com_demand = {}
        /\ \A c \in data.commodity :
              /\ c[2] \in m.com_supim <=> c[3] = "SupIm"
              /\ c[2] \in m.com_stock <=> c[3] = "Stock"
              /\ c[2] \in m.com_demand <=> c[3] = "Demand"

(***************************************************************************)
(* C24: res_demand yields constraints for commodity tuples of type Demand  *)
(* only, and def_e_co_stock, res_stock_step and res_stock_total for tuples *)
(* of type Stock only; no build fails in one of these declarations on a    *)
(* lookup made for a tuple of another type.                                *)
(***************************************************************************)
StockFamilies == {"def_e_co_stock", "res_stock_step", "res_stock_total"}

C24_RulesFollowTupleType ==
    /\ \A r \in Family("res_demand") : r.key[3] = "Demand"
    /\ \A r \in m.cons : r.name \in StockFamilies => r.key[3] = "Stock"
    /\ ~(pc = "failed" /\ result.at \in StockFamilies \cup {"res_demand"})

(***************************************************************************)
(* C25: once the parameters are set, weight * (number of modelled          *)
(* timesteps) * dt = 8760: the weighted sums over the modelled timesteps   *)
(* extrapolate a constant quantity to exactly one year.                    *)
(***************************************************************************)
C25_WeightOverModelledSteps ==
    m.dt # 0 =>
        RMul(m.weight, R(Cardinality(Modelled) * dt)) = R(HoursPerYear)

(***************************************************************************)
(* Builds from a process table that lacks the column eff, or some of       *)
(* whose rows have an empty eff cell.                                      *)
(***************************************************************************)
MissingTables ==
    {[commodity |-> ComAlways \cup c, process |-> p,
      transmission |-> {}, storage |-> {},
      nan |-> n, dropped |-> d] :
        c \in SUBSET {<<"A", "Wind", "SupIm">>},
        p \in SUBSET {<<"A", "plant", "Coal", "Elec">>,
                      <<"A", "wt", "Wind", "Elec">>},
        n \in SUBSET {<<"A", "plant", "Coal", "Elec">>,
                      <<"A", "wt", "Wind", "Elec">>},
        d \in {{}, {"eff"}}}

InitMissing ==
    /\ data \in {d \in MissingTables : d.nan \subseteq d.process}
    /\ timesteps \in {h \in Horizons : Len(h) = MaxTime}
    /\ dt = 1
    /\ m = EmptyModel
    /\ pc = "sets"
    /\ result = Running
    /\ bal = NoCall
    /\ sol = NoValues
    /\ cost_types = CostTypes
    /\ ann = NoCall

NextMissing == create_model

SpecMissing == InitMissing /\ [][NextMissing]_vars

\* the coefficients of a constraint body
Coefs(body) ==
    {x[1] : x \in DOMAIN body.lo \cup DOMAIN body.lhs \cup DOMAIN body.rhs}

(***************************************************************************)
(* C23: when the attribute eff is missing for a process tuple that needs   *)
(* it (the column is absent, or the cell of the row is empty), the build   *)
(* fails and returns no model; no returned model holds a constraint built  *)
(* from a missing value.                                                   *)
(***************************************************************************)
C23_MissingAttributeIsFatal ==
    /\ (Modelled # {} /\ data.process # {}
           /\ (data.nan # {} \/ "eff" \in data.dropped))
          => result # Returned
    /\ result = Returned =>
          \A r \in m.cons : NaNCoef \notin Coefs(r.body)

(***************************************************************************)
(* Values for the capacity variables of a returned model.  The constraints *)
(* that mention capacity variables only are checked; every assignment that *)
(* satisfies all constraints satisfies these, so a system whose capacity   *)
(* variables admit no values admits none at all.                           *)
(***************************************************************************)
CapNames == {"cap_pro", "cap_pro_new", "cap_tra", "cap_tra_new",
             "cap_sto_p", "cap_sto_p_new", "cap_sto_c", "cap_sto_c_new"}

CapVars == {v \in m.vars : v[1] \in CapNames}

\* new capacities take the values -100, 0, 100, ..., 100 * MaxLevel
CapLevels == {R(100 * k) : k \in -1..MaxLevel}

CapUnvalued(s) == CapVars \ DOMAIN s

\* the domain the variable was declared with
InDomain(v, val) ==
    <<v[1], "NonNegativeReals">> \in m.within => RLe(RZero, val)

NextCap(s) ==
    IF \E v \in CapUnvalued(s) : Defining(v, s) # {}
    THEN CHOOSE v \in CapUnvalued(s) : Defining(v, s) # {}
    ELSE IF CapUnvalued(s) \ Defined # {}
    THEN CHOOSE v \in CapUnvalued(s) \ Defined : TRUE
    ELSE CHOOSE v \in CapUnvalued(s) : TRUE

CapCandidates(v, s) ==
    IF Defining(v, s) # {}
    THEN {Value(r.body.rhs, s) : r \in Defining(v, s)}
    ELSE CapLevels

CapComplete(s) == result = Returned /\ CapVars \subseteq DOMAIN s

load_capacity ==
    /\ pc = "done"
    /\ result = Returned
    /\ CapUnvalued(sol) # {}
    /\ \E v \in {NextCap(sol)} :
          \E val \in CapCandidates(v, sol) :
             \E s \in {[x \in DOMAIN sol \cup {v} |->
                           IF x = v THEN val ELSE sol[x]]} :
                /\ InDomain(v, val)
                /\ \A r \in m.cons :
                      (v \in Refs(r.body) /\ Refs(r.body) \subseteq DOMAIN s)
                          => Holds(r.body, s)
                /\ sol' = s
    /\ UNCHANGED <<data, timesteps, dt, m, pc, result, bal, cost_types, ann>>

\* tables with tuples whose installed capacity exceeds the upper bound
\* (process old, transmission dc, storage tank and pump) and without
CapTables ==
    {[commodity |-> ComAlways \cup {<<"B", "Elec", "Demand">>},
      process |-> p, transmission |-> t, storage |-> s,
      nan |-> {}, dropped |-> {}] :
        p \in SUBSET {<<"A", "plant", "Coal", "Elec">>,
                      <<"A", "old", "Coal", "Elec">>},
        t \in {{}, TraUniverse,
               {<<"A", "B", "dc", "Elec">>, <<"B", "A", "dc", "Elec">>}},
        s \in {{}, {<<"A", "bat", "Elec">>}, {<<"A", "tank", "Elec">>},
               {<<"A", "pump", "Elec">>},
               {<<"A", "bat", "Elec">>, <<"A", "tank", "Elec">>}}}

InitCapacity ==
    /\ data \in CapTables
    /\ timesteps = <<1, 2>>
    /\ dt = 1
    /\ m = EmptyModel
    /\ pc = "sets"
    /\ result = Running
    /\ bal = NoCall
    /\ sol = NoValues
    /\ cost_types = CostTypes
    /\ ann = NoCall

NextCapacity == create_model \/ load_capacity

SpecCapacity == InitCapacity /\ [][NextCapacity]_vars

\* the tuples whose installed capacity exceeds the upper capacity bound
Exceeds(inst, up) == ~RLe(inst, up)
Oversized ==
    {p \in data.process :
        Exceeds(process_loc(p, "inst-cap"), process_loc(p, "cap-up"))}
    \cup {t \in data.transmission :
        Exceeds(transmission_loc(t, "inst-cap"),
                transmission_loc(t, "cap-up"))}
    \cup {s \in data.storage :
        \/ Exceeds(storage_loc(s, "inst-cap-p"), storage_loc(s, "cap-up-p"))
        \/ Exceeds(storage_loc(s, "inst-cap-c"), storage_loc(s, "cap-up-c"))}

\* a valued total capacity is at least the installed capacity
AtLeast(name, k, inst) ==
    V(name, NoT, k) \in DOMAIN sol => RLe(inst, sol[V(name, NoT, k)])

(***************************************************************************)
(* C26: in every assignment that satisfies the domains and the capacity    *)
(* constraints of a returned model, the total capacity of every process,   *)
(* transmission and storage tuple (power and content) is at least its      *)
(* installed capacity; when the installed capacity of some tuple exceeds   *)
(* its upper bound the build still returns a model, and no assignment of   *)
(* the capacity variables satisfies the constraints.                       *)
(***************************************************************************)
C26_TotalAtLeastInstalled ==
    /\ \A p \in data.process :
          AtLeast("cap_pro", p, process_loc(p, "inst-cap"))
    /\ \A t \in data.transmission :
          AtLeast("cap_tra", t, transmission_loc(t, "inst-cap"))
    /\ \A s \in data.storage :
          /\ AtLeast("cap_sto_p", s, storage_loc(s, "inst-cap-p"))
          /\ AtLeast("cap_sto_c", s, storage_loc(s, "inst-cap-c"))
    /\ Oversized # {} => ~CapComplete(sol)
    /\ pc # "failed"

C26_Witness ==
    /\ Oversized # {}
    /\ result = Returned
    /\ \E p \in data.process \cap Oversized :
          V("cap_pro_new", NoT, p) \in DOMAIN sol
    /\ \E k \in data.process \cup data.transmission \cup data.storage :
          \E n \in {"cap_pro", "cap_tra", "cap_sto_p", "cap_sto_c"} :
              V(n, NoT, k) \in DOMAIN sol

====
